---- MODULE Spec2Model ----
(***************************************************************************)
(* Model of the apos consensus package of mjoy-go: the signature /         *)
(* credential subsystem (apos_signing.go), the protocol configuration      *)
(* (config.go) and the round driven by the tests (apos_test.go).           *)
(*                                                                         *)
(* Representation.                                                         *)
(*  - A Go pointer (to a types.BigInt, a big.Int, an ecdsa.PrivateKey) or *)
(*    a []byte that may be nil is a sequence: <<>> is nil, <<x>> points    *)
(*    at x.                                                                *)
(*  - A byte string is a sequence of numbers 0..255, big-endian.           *)
(*  - TLC's integers are 32 bits wide, so the widths of the code are       *)
(*    scaled: a uint64 is WordBits bits wide, a scalar of the signature    *)
(*    (32 bytes in the code) is ScalarLen bytes wide and the curve order   *)
(*    is CurveN.  A byte keeps its 8 bits.                                 *)
(***************************************************************************)
EXTENDS Integers, Sequences, FiniteSets, TLC

VARIABLES chainId, quantity, cret, prov, last,
          cfg, phase, quorum, byz, part, votes

sigvars == <<chainId, quantity, cret, prov, last>>
roundvars == <<cfg, phase, quorum, byz, part, votes>>
vars == <<chainId, quantity, cret, prov, last, cfg, phase, quorum, byz, part, votes>>

(***************************************************************************)
(* Bounds and scaled widths                                                *)
(***************************************************************************)
\* width of a uint64 of the code, scaled
WordBits == 12
\* bytes of one scalar R or S in the wire format (32 in the code), scaled
ScalarLen == 2
\* order of the curve (secp256k1N in the code), scaled to ScalarLen bytes
CurveN == 4093
\* number of valid private keys of the model
MaxKey == 2
\* rounds a payload may name
MaxRound == 1
\* participants init may be given (0, 2, 3, 4 in the tests)
MaxNodes == 3
\* the largest maxBBASteps a modelled round runs with (12 in the tests)
MaxSteps == 2
\* identities whose votes the harness may forge
MaxByz == 1
\* the largest seed (quantity Qr-1) a round may have
MaxSeed == 1

\* bits of a byte: recoverPlain's width test and Go's byte arithmetic
ByteBits == 8
\* the V bias without a chain id (common.Big27)
Big27 == 27
\* the V bias with a chain id (common.Big35)
Big35 == 35

ByteMod == 2 ^ ByteBits
WordMod == 2 ^ WordBits
SigLen == 2 * ScalarLen + 1
HalfN == CurveN \div 2

Nil == <<>>
Ptr(x) == <<x>>
Val(p) == p[1]

Abs(x) == IF x < 0 THEN 0 - x ELSE x

(***************************************************************************)
(* math/big and byte strings                                               *)
(***************************************************************************)
RECURSIVE BitLen(_)
\* big.Int.BitLen: the length of the absolute value in bits
BitLen(x) == IF Abs(x) = 0 THEN 0 ELSE 1 + BitLen(Abs(x) \div 2)

\* big.Int.Uint64: the low word of the absolute value
Uint64(x) == Abs(x) % WordMod

\* Go's byte(u) conversion of an unsigned value
ToByte(u) == u % ByteMod

RECURSIVE Bytes(_)
\* big.Int.Bytes: the big-endian bytes of the absolute value, no leading zero
Bytes(x) == IF Abs(x) = 0 THEN <<>>
            ELSE Append(Bytes(Abs(x) \div ByteMod), Abs(x) % ByteMod)

RECURSIVE SetBytes(_)
\* big.Int.SetBytes: the unsigned big-endian integer of a byte string
SetBytes(b) == IF Len(b) = 0 THEN 0
               ELSE SetBytes(SubSeq(b, 1, Len(b) - 1)) * ByteMod + b[Len(b)]

Zeros(n) == [i \in 1..n |-> 0]

\* big.Int.Sign
BigSign(x) == IF x < 0 THEN 0 - 1 ELSE IF x = 0 THEN 0 ELSE 1

\* big.Int.Cmp
BigCmp(a, b) == IF a < b THEN 0 - 1 ELSE IF a = b THEN 0 ELSE 1

(***************************************************************************)
(* The crypto and encoding packages the signing code calls                 *)
(***************************************************************************)
\* the zero digest types.Hash{}
ZeroHash == 0

Keys == 1..MaxKey
\* a private key crypto.Sign refuses
BadKey == 0
\* the key of an address no modelled key owns
StrangerKey == MaxKey + 1

Rounds == 0..MaxRound
\* the step the tests make credentials for
TestStep == 2
Vals == {Nil, Ptr(1)}

ValNum(v) == IF v = Nil THEN 0 ELSE 1 + Val(v)

\* common.MsgpHash of the structure a signer hashes: a digest that is never
\* zero and differs whenever an encoded field differs
MsgpHash(kind, round, step, payload) ==
    1 + (IF kind = "ephemeral" THEN 1 ELSE 0)
      + 2 * (round + (MaxRound + 1) * (step + (TestStep + 1) * ValNum(payload)))

\* crypto.Sign: the raw signature [R || S || recovery bit] of a digest under
\* a key; R and S are in the curve's range, S in its lower half
SignRaw(h, k) ==
    [r |-> ByteMod + h * (MaxKey + 1) + k, s |-> 1 + h + k, v |-> (h + k) % 2]

\* crypto.ValidateSignatureValues
ValidateSignatureValues(v, r, s, homestead) ==
    IF r < 1 \/ s < 1 THEN FALSE
    ELSE IF homestead /\ s > HalfN THEN FALSE
    ELSE r < CurveN /\ s < CurveN /\ (v = 0 \/ v = 1)

\* crypto.Ecrecover: the keys a signature may recover to; a signature no
\* modelled key made recovers to a stranger's key or fails
Ecrecover(h, r, s, v) ==
    LET made == {k \in Keys : SignRaw(h, k) = [r |-> r, s |-> s, v |-> v]}
    IN  IF made # {} /\ h # ZeroHash THEN made ELSE {StrangerKey, BadKey}

\* the address of a key: Keccak256(pub[1:])[12:]
AddrOf(k) == 100 + k

Reverse(b) == [i \in 1..Len(b) |-> b[Len(b) + 1 - i]]

\* crypto.Keccak256 of a byte string: a digest that differs whenever the
\* input differs
Keccak256(b) == <<Len(b)>> \o Reverse(b)

RECURSIVE LexCmp(_, _)
\* the order of two digests read as big-endian integers
LexCmp(a, b) ==
    IF Len(a) = 0 /\ Len(b) = 0 THEN 0
    ELSE IF Len(a) = 0 THEN 0 - 1
    ELSE IF Len(b) = 0 THEN 1
    ELSE IF Head(a) < Head(b) THEN 0 - 1
    ELSE IF Head(a) > Head(b) THEN 1
    ELSE LexCmp(Tail(a), Tail(b))

(***************************************************************************)
(* Config(): the chain id the signing code reads                           *)
(***************************************************************************)
\* Config().chainIdMul, kept as twice the chain id
chainIdMul(cid) == 2 * Val(cid)

(***************************************************************************)
(* Signature                                                               *)
(***************************************************************************)
\* the zero value of a CredentialSign or EphemeralSign: R, S, V are nil
NewSigner(kind, round, step, payload) ==
    [kind |-> kind, Round |-> round, Step |-> step, val |-> payload,
     R |-> Nil, S |-> Nil, V |-> Nil]

\* Signature.init
init(s) == [s EXCEPT !.R = Ptr(0), !.S = Ptr(0), !.V = Ptr(0)]

\* Signature.checkObj: TRUE when it returns, FALSE when it panics
checkObj(s) == s.R # Nil /\ s.S # Nil /\ s.V # Nil

\* getV with the replay protection forgotten: the bias is always 27
getV_noChain(b, cid) == SetBytes(<<ToByte(b + Big27)>>)

\* the V that get stores for the last byte b of a signature
getV(b, cid) ==
    IF cid # Nil /\ BigSign(Val(cid)) # 0
    THEN ToByte(b + Big35) + chainIdMul(cid)
    ELSE SetBytes(<<ToByte(b + Big27)>>)

\* get refusing a nil chain id
get_nilChainPanics(s, sig, cid) ==
    IF ~checkObj(s) \/ cid = Nil
    THEN [out |-> "panic", err |-> "uninitialized", s |-> s]
    ELSE IF Len(sig) # SigLen THEN [out |-> "err", err |-> "wrong size", s |-> s]
    ELSE [out |-> "ok", err |-> "",
          s |-> [s EXCEPT
                   !.R = Ptr(SetBytes(SubSeq(sig, 1, ScalarLen))),
                   !.S = Ptr(SetBytes(SubSeq(sig, ScalarLen + 1, 2 * ScalarLen))),
                   !.V = Ptr(getV(sig[SigLen], cid))]]

\* get without its checkObj call
get_noCheck(s, sig, cid) ==
    IF Len(sig) # SigLen THEN [out |-> "err", err |-> "wrong size", s |-> s]
    ELSE [out |-> "ok", err |-> "",
          s |-> [s EXCEPT
                   !.R = Ptr(SetBytes(SubSeq(sig, 1, ScalarLen))),
                   !.S = Ptr(SetBytes(SubSeq(sig, ScalarLen + 1, 2 * ScalarLen))),
                   !.V = Ptr(getV(sig[SigLen], cid))]]

\* Signature.get
get(s, sig, cid) ==
    IF ~checkObj(s) THEN [out |-> "panic", err |-> "uninitialized", s |-> s]
    ELSE IF Len(sig) # SigLen THEN [out |-> "err", err |-> "wrong size", s |-> s]
    ELSE [out |-> "ok", err |-> "",
          s |-> [s EXCEPT
                   !.R = Ptr(SetBytes(SubSeq(sig, 1, ScalarLen))),
                   !.S = Ptr(SetBytes(SubSeq(sig, ScalarLen + 1, 2 * ScalarLen))),
                   !.V = Ptr(getV(sig[SigLen], cid))]]

\* V minus the chain-id bias, as toBytes and sender compute it
unbiasV(v, cid) ==
    IF BigSign(Val(cid)) # 0 THEN (v - chainIdMul(cid)) - Big35 ELSE v - Big27

\* encodeSig without the right alignment of R and S
encodeSig_noPad(r, s, vb) == Bytes(r) \o Bytes(s) \o <<vb>>

\* encodeSig leaving the recovery byte out of the layout
encodeSig_noV(r, s, vb) ==
    Zeros(ScalarLen - Len(Bytes(r))) \o Bytes(r)
      \o Zeros(ScalarLen - Len(Bytes(s))) \o Bytes(s) \o <<0>>

\* the 65-byte layout R || S || V with R and S right-aligned
encodeSig(r, s, vb) ==
    Zeros(ScalarLen - Len(Bytes(r))) \o Bytes(r)
      \o Zeros(ScalarLen - Len(Bytes(s))) \o Bytes(s) \o <<vb>>

\* Signature.toBytes; a nil chain id is a nil dereference
toBytes(s, cid) ==
    IF ~checkObj(s) THEN [out |-> "panic", err |-> "uninitialized", sig |-> Nil]
    ELSE IF cid = Nil THEN [out |-> "panic", err |-> "nil chain id", sig |-> Nil]
    ELSE LET vb == ToByte(Uint64(unbiasV(Val(s.V), cid)))
         IN  IF ~ValidateSignatureValues(vb, Val(s.R), Val(s.S), TRUE)
             THEN [out |-> "ok", err |-> "", sig |-> Nil]
             ELSE [out |-> "ok", err |-> "",
                   sig |-> encodeSig(Val(s.R), Val(s.S), vb)]

\* Signature.hashBytes and Signature.Hash
hashBytes(s, cid) ==
    LET b == toBytes(s, cid)
    IN  IF b.out = "panic" THEN [out |-> "panic", err |-> b.err, h |-> Nil]
        ELSE [out |-> "ok", err |-> "", h |-> Keccak256(b.sig)]

\* CredentialSign.Cmp
Cmp(a, b, cid) ==
    LET ha == hashBytes(a, cid)
        hb == hashBytes(b, cid)
    IN  IF ha.out = "panic" THEN [out |-> "panic", err |-> ha.err, cmp |-> 0]
        ELSE IF hb.out = "panic" THEN [out |-> "panic", err |-> hb.err, cmp |-> 0]
        ELSE [out |-> "ok", err |-> "", cmp |-> LexCmp(ha.h, hb.h)]

\* CredentialSign.hash and EphemeralSign.hash.  enc says whether the
\* encoding succeeds; the credential's quantity is the fixed byte 0
hash(s, enc) ==
    IF s.kind = "ephemeral" /\ s.val = Nil
    THEN [out |-> "panic", h |-> ZeroHash]
    ELSE IF ~enc THEN [out |-> "ok", h |-> ZeroHash]
    ELSE IF s.kind = "ephemeral"
    THEN [out |-> "ok", h |-> MsgpHash(s.kind, s.Round, s.Step, s.val)]
    ELSE [out |-> "ok", h |-> MsgpHash(s.kind, s.Round, s.Step, Ptr(0))]

NoRet == [R |-> Nil, S |-> Nil, V |-> Nil]

\* CredentialSign.ToCredentialSigKey: round and step, and R, S, V each
\* reduced to a uint64; a nil component is a nil dereference
ToCredentialSigKey(s) ==
    IF s.R = Nil \/ s.S = Nil \/ s.V = Nil
    THEN [out |-> "panic", err |-> "nil dereference", key |-> Nil]
    ELSE [out |-> "ok", err |-> "",
          key |-> <<s.Round, s.Step,
                    Uint64(Val(s.R)), Uint64(Val(s.S)), Uint64(Val(s.V))>>]

\* sign computing the digest before it tests the key
sign_hashFirst(s, prv, enc, cid) ==
    IF hash(s, enc).out = "panic"
    THEN [out |-> "panic", err |-> "payload not initialized", s |-> s, ret |-> NoRet]
    ELSE IF prv = Nil
    THEN [out |-> "err", err |-> "private key is empty", s |-> s, ret |-> NoRet]
    ELSE IF hash(s, enc).h = ZeroHash
    THEN [out |-> "err", err |-> "hash is empty", s |-> s, ret |-> NoRet]
    ELSE IF Val(prv) \notin Keys
    THEN [out |-> "err", err |-> "sign failed", s |-> s, ret |-> NoRet]
    ELSE LET raw == SignRaw(hash(s, enc).h, Val(prv))
             g == get(s, encodeSig(raw.r, raw.s, raw.v), cid)
         IN  IF g.out = "ok"
             THEN [out |-> "ok", err |-> "", s |-> g.s,
                   ret |-> [R |-> g.s.R, S |-> g.s.S, V |-> g.s.V]]
             ELSE [out |-> g.out, err |-> g.err, s |-> g.s, ret |-> NoRet]

\* CredentialSign.sign and EphemeralSign.sign
sign(s, prv, enc, cid) ==
    IF prv = Nil
    THEN [out |-> "err", err |-> "private key is empty", s |-> s, ret |-> NoRet]
    ELSE IF hash(s, enc).out = "panic"
    THEN [out |-> "panic", err |-> "payload not initialized", s |-> s, ret |-> NoRet]
    ELSE IF hash(s, enc).h = ZeroHash
    THEN [out |-> "err", err |-> "hash is empty", s |-> s, ret |-> NoRet]
    ELSE IF Val(prv) \notin Keys
    THEN [out |-> "err", err |-> "sign failed", s |-> s, ret |-> NoRet]
    ELSE LET raw == SignRaw(hash(s, enc).h, Val(prv))
             g == get(s, encodeSig(raw.r, raw.s, raw.v), cid)
         IN  IF g.out = "ok"
             THEN [out |-> "ok", err |-> "", s |-> g.s,
                   ret |-> [R |-> g.s.R, S |-> g.s.S, V |-> g.s.V]]
             ELSE [out |-> g.out, err |-> g.err, s |-> g.s, ret |-> NoRet]

\* deriveChainId without the case of the unprotected V 27 and 28
deriveChainId_noLegacy(v) ==
    IF BitLen(v) <= WordBits
    THEN ((Uint64(v) - Big35) % WordMod) \div 2
    ELSE (v - Big35) \div 2

\* deriveChainId
deriveChainId(v) ==
    IF BitLen(v) <= WordBits
    THEN IF Uint64(v) = 27 \/ Uint64(v) = 28 THEN 0
         ELSE ((Uint64(v) - Big35) % WordMod) \div 2
    ELSE (v - Big35) \div 2

NoAddr == 0

\* recoverPlain without the test of V's width
recoverPlain_noWidth(sighash, R, S, Vb, homestead) ==
    IF ~ValidateSignatureValues(ToByte(Uint64(Vb)), R, S, homestead)
    THEN {[out |-> "err", err |-> "ErrInvalidSig", addr |-> NoAddr]}
    ELSE {IF k = BadKey
          THEN [out |-> "err", err |-> "recovery failed", addr |-> NoAddr]
          ELSE [out |-> "ok", err |-> "", addr |-> AddrOf(k)]
          : k \in Ecrecover(sighash, R, S, ToByte(Uint64(Vb)))}

\* recoverPlain: the results it may return
recoverPlain(sighash, R, S, Vb, homestead) ==
    IF BitLen(Vb) > ByteBits
    THEN {[out |-> "err", err |-> "ErrInvalidSig", addr |-> NoAddr]}
    ELSE IF ~ValidateSignatureValues(ToByte(Uint64(Vb)), R, S, homestead)
    THEN {[out |-> "err", err |-> "ErrInvalidSig", addr |-> NoAddr]}
    ELSE {IF k = BadKey
          THEN [out |-> "err", err |-> "recovery failed", addr |-> NoAddr]
          ELSE [out |-> "ok", err |-> "", addr |-> AddrOf(k)]
          : k \in Ecrecover(sighash, R, S, ToByte(Uint64(Vb)))}

\* CredentialSign.sender and EphemeralSign.sender: the results it may return
sender(s, enc, cid) ==
    IF ~checkObj(s)
    THEN {[out |-> "panic", err |-> "uninitialized", addr |-> NoAddr]}
    ELSE IF cid # Nil /\ BigCmp(deriveChainId(Val(s.V)), Val(cid)) # 0
    THEN {[out |-> "err", err |-> "ErrInvalidChainId", addr |-> NoAddr]}
    ELSE IF cid = Nil
    THEN {[out |-> "panic", err |-> "nil chain id", addr |-> NoAddr]}
    ELSE IF hash(s, enc).out = "panic"
    THEN {[out |-> "panic", err |-> "payload not initialized", addr |-> NoAddr]}
    ELSE recoverPlain(hash(s, enc).h, Val(s.R), Val(s.S),
                      unbiasV(Val(s.V), cid), TRUE)

(***************************************************************************)
(* Inputs                                                                  *)
(***************************************************************************)
\* the chain id whose doubled bias fills a word: deriveChainId's unsigned
\* subtraction wraps to it
WrapChainId == (WordMod - Big35 + 1) \div 2
\* a chain id whose V does not fit a word
WideChainId == WordMod
ChainIds == {0, 1, WrapChainId, WideChainId}
ChainPtrs == {Nil} \cup {Ptr(c) : c \in ChainIds}

\* the bias the claims name: chainId*2+35, or 27 for chain id zero
Bias(c) == IF c # 0 THEN 2 * c + Big35 ELSE Big27

KeyPtrs == {Nil, Ptr(BadKey)} \cup {Ptr(k) : k \in Keys}

\* (R, S) pairs in the range ValidateSignatureValues accepts
RSValid == {<<Ptr(1), Ptr(1)>>, <<Ptr(CurveN - 1), Ptr(HalfN)>>}
\* (R, S) pairs out of range in each way ValidateSignatureValues tests, and
\* pairs with a nil component
RSInvalid ==
    {<<Ptr(0), Ptr(1)>>, <<Ptr(CurveN), Ptr(1)>>,
     <<Ptr(1), Ptr(0)>>, <<Ptr(1), Ptr(HalfN + 1)>>,
     <<Nil, Ptr(1)>>, <<Ptr(1), Nil>>}
\* the V a received message may carry: around each bias, a multiple of a
\* byte above it, negative, zero, and wider than a word
VInputs ==
    {0, 1, 0 - 1, 0 - Big27, Big27 + ByteMod, Bias(1) + ByteMod, 0 - Bias(1)}
    \cup UNION {{Bias(c) - 1, Bias(c), Bias(c) + 1, Bias(c) + 2} : c \in ChainIds}
\* the (R, S, V) a received message may carry
DecodeInputs ==
    {<<rs[1], rs[2], v>> : rs \in RSValid, v \in {Nil} \cup {Ptr(x) : x \in VInputs}}
    \cup {<<rs[1], rs[2], Ptr(Bias(c))>> : rs \in RSInvalid, c \in ChainIds}

Signers == {NewSigner("credential", MaxRound, TestStep, Nil)}
           \cup {NewSigner("ephemeral", MaxRound, TestStep, v) : v \in Vals}

LastBytes == {0, 1, ByteMod - Big35, ByteMod - 1}
\* byte strings handed to get: well-formed ones and ones of a wrong length
GetInputs ==
    {encodeSig(CurveN, HalfN + 1, b) : b \in LastBytes}
    \cup {<<>>, Zeros(SigLen - 1), Zeros(SigLen + 1)}

(***************************************************************************)
(* State                                                                   *)
(***************************************************************************)
NoProv ==
    [signed |-> FALSE, key |-> BadKey, chain |-> Nil, h |-> ZeroHash, q |-> 0]

Result(op, out, err) ==
    [op |-> op, out |-> out, err |-> err, addr |-> NoAddr, sig |-> Nil,
     arg |-> Nil, ret |-> NoRet, cmp |-> 0, enc |-> TRUE, pre |-> NoRet]

RSV(s) == [R |-> s.R, S |-> s.S, V |-> s.V]

SigInit ==
    /\ chainId = Nil
    /\ quantity = 0
    /\ cret \in Signers
    /\ prov = NoProv
    /\ last = Result("new", "ok", "")

\* the configuration's chain id is set (Config() is process-wide and mutable)
SetChainId ==
    \E c \in ChainPtrs :
        /\ c # chainId
        /\ chainId' = c
        /\ last' = Result("config", "ok", "")
        /\ UNCHANGED <<cret, prov>>
        /\ UNCHANGED <<quantity, roundvars>>

\* the seeds a round may have
Quantities == 0..MaxSeed

\* a new round begins: its seed is the quantity credentials are to be made for
SetQuantity ==
    \E q \in Quantities :
        /\ q # quantity
        /\ quantity' = q
        /\ last' = Result("seed", "ok", "")
        /\ UNCHANGED <<chainId, cret, prov>>
        /\ UNCHANGED roundvars

\* a new signer object replaces the current one
New ==
    \E s \in Signers :
        /\ cret' = s
        /\ prov' = NoProv
        /\ last' = Result("new", "ok", "")
        /\ UNCHANGED chainId
        /\ UNCHANGED <<quantity, roundvars>>

\* Signature.Init
Init_ ==
    /\ cret' = init(cret)
    /\ prov' = NoProv
    /\ last' = Result("init", "ok", "")
    /\ UNCHANGED chainId
    /\ UNCHANGED <<quantity, roundvars>>

\* the generated decoder fills the R, S, V of a new object from a received
\* message
Decode ==
    \E d \in DecodeInputs :
        /\ cret.R = Nil /\ cret.S = Nil /\ cret.V = Nil
        /\ cret' = [cret EXCEPT !.R = d[1], !.S = d[2], !.V = d[3]]
        /\ prov' = NoProv
        /\ last' = Result("decode", "ok", "")
        /\ UNCHANGED chainId
        /\ UNCHANGED <<quantity, roundvars>>

\* CredentialSign.Sign / EphemeralSign.Sign
SignAct ==
    \E prv \in KeyPtrs, enc \in BOOLEAN :
        LET r == sign(cret, prv, enc, chainId)
        IN  /\ cret' = r.s
            /\ prov' = IF r.out = "ok"
                       THEN [signed |-> TRUE, key |-> Val(prv), chain |-> chainId,
                             h |-> hash(cret, enc).h, q |-> quantity]
                       ELSE prov
            /\ last' = [Result("sign", r.out, r.err) EXCEPT
                          !.ret = r.ret, !.arg = prv, !.enc = enc,
                          !.pre = RSV(cret)]
            /\ UNCHANGED chainId
            /\ UNCHANGED <<quantity, roundvars>>

\* CredentialSign.sender / EphemeralSign.sender
SenderAct ==
    \E enc \in BOOLEAN :
        \E r \in sender(cret, enc, chainId) :
            /\ last' = [Result("sender", r.out, r.err) EXCEPT
                          !.addr = r.addr, !.enc = enc, !.pre = RSV(cret)]
            /\ UNCHANGED <<chainId, cret, prov>>
            /\ UNCHANGED <<quantity, roundvars>>

\* Signature.toBytes
ToBytesAct ==
    LET r == toBytes(cret, chainId)
    IN  /\ last' = [Result("toBytes", r.out, r.err) EXCEPT
                      !.sig = r.sig, !.pre = RSV(cret)]
        /\ UNCHANGED <<chainId, cret, prov>>
        /\ UNCHANGED <<quantity, roundvars>>

\* Signature.hashBytes / Signature.Hash
HashAct ==
    LET r == hashBytes(cret, chainId)
    IN  /\ last' = [Result("hashBytes", r.out, r.err) EXCEPT
                      !.sig = r.h, !.pre = RSV(cret)]
        /\ UNCHANGED <<chainId, cret, prov>>
        /\ UNCHANGED <<quantity, roundvars>>

\* Signature.get on a received byte string, or on the bytes toBytes returned
GetAct ==
    \E sig \in GetInputs \cup (IF last.op = "toBytes" THEN {last.sig} ELSE {}) :
        LET r == get(cret, sig, chainId)
        IN  /\ cret' = r.s
            /\ prov' = IF r.out = "ok" THEN NoProv ELSE prov
            /\ last' = [Result("get", r.out, r.err) EXCEPT
                          !.arg = sig, !.pre = RSV(cret)]
            /\ UNCHANGED chainId
            /\ UNCHANGED <<quantity, roundvars>>

\* the credentials Cmp is given
Others ==
    {cret, init(cret), [cret EXCEPT !.V = Nil],
     NewSigner("credential", 0, TestStep, Nil)}
    \cup {[cret EXCEPT !.R = rs[1], !.S = rs[2], !.V = Ptr(v)] :
             rs \in RSValid,
             v \in IF chainId = Nil THEN {}
                   ELSE {Bias(Val(chainId)), Bias(Val(chainId)) + 1}}

\* CredentialSign.Cmp
CmpAct ==
    \E b \in Others :
        LET r == Cmp(cret, b, chainId)
        IN  /\ last' = [Result("Cmp", r.out, r.err) EXCEPT
                          !.cmp = r.cmp, !.arg = RSV(b), !.pre = RSV(cret)]
            /\ UNCHANGED <<chainId, cret, prov>>
            /\ UNCHANGED <<quantity, roundvars>>

\* the credentials of other nodes whose keys are stored next to cret's: they
\* differ from cret in one field, R, S and V by a bit above the low word
KeyOthers ==
    {cret, [cret EXCEPT !.Round = (cret.Round + 1) % (MaxRound + 1)],
     [cret EXCEPT !.Step = cret.Step + 1]}
    \cup (IF checkObj(cret)
          THEN {[cret EXCEPT !.R = Ptr(Val(cret.R) + WordMod)],
                [cret EXCEPT !.S = Ptr(Val(cret.S) + WordMod)],
                [cret EXCEPT !.V = Ptr(Val(cret.V) + WordMod)],
                [cret EXCEPT !.V = Ptr(Val(cret.V) + 1)]}
          ELSE {})

\* CredentialSign.ToCredentialSigKey of cret, to be held against the key of
\* another node's credential
ToKeyAct ==
    \E b \in KeyOthers :
        LET r == ToCredentialSigKey(cret)
        IN  /\ cret.kind = "credential"
            /\ last' = [Result("ToCredentialSigKey", r.out, r.err) EXCEPT
                          !.sig = r.key, !.arg = b, !.pre = RSV(cret)]
            /\ UNCHANGED <<chainId, cret, prov>>
            /\ UNCHANGED <<quantity, roundvars>>

SigNext ==
    \/ SetChainId
    \/ SetQuantity
    \/ New
    \/ Init_
    \/ Decode
    \/ SignAct
    \/ SenderAct
    \/ ToBytesAct
    \/ HashAct
    \/ GetAct
    \/ CmpAct
    \/ ToKeyAct


(***************************************************************************)
(* Protocol configuration (config.go)                                      *)
(***************************************************************************)
\* big.NewInt(x) for an x beyond 32 bits: two limbs, x = hi * LimbBase + lo
LimbBase == 10 ^ 5
NewInt(hi, lo) == <<hi, lo>>
\* big.Int.Cmp(a, b) <= 0 on limbs
BigLeq(a, b) == a[1] < b[1] \/ (a[1] = b[1] /\ a[2] <= b[2])

\* the zero value of Config, before setDefault
ZeroConfig ==
    [set |-> FALSE, Lookback |-> 0, PrPrecision |-> NewInt(0, 0),
     PrLeader |-> NewInt(0, 0), PrVerifier |-> NewInt(0, 0), MaxBBASteps |-> 0,
     MaxNumPerRound |-> 0, PrH |-> NewInt(0, 0), DelayBlock |-> 0,
     DelayVerify |-> 0]

\* Config.setDefault
setDefault(c) ==
    [c EXCEPT !.set = TRUE,
              !.Lookback = 100,
              !.PrPrecision = NewInt(0, 10),
              !.PrLeader = NewInt(10000, 0),
              !.PrVerifier = NewInt(50000, 0),
              !.MaxBBASteps = 180,
              !.MaxNumPerRound = 10,
              !.PrH = NewInt(0, 34),
              !.DelayBlock = 60,
              !.DelayVerify = 10]

(***************************************************************************)
(* The round: participants, votes, the bounded agreement                   *)
(***************************************************************************)
\* the proposed block hash and a corrupted hash
Values == {"H", "X"}
\* the well-known fallback value
Default == "empty"

Nodes == DOMAIN part
Terminal(p) == part[p].st \in {"Committed", "Fallback"}

\* the senders of the votes for value v in step i
Voters(i, v) == {m.from : m \in {x \in votes : x.step = i /\ x.val = v}}
\* a quorum of votes for v exists in step i
HasQuorum(i, v) == Cardinality(Voters(i, v)) >= quorum

RoundInit ==
    /\ cfg = ZeroConfig
    /\ phase = "idle"
    /\ quorum = 0
    /\ byz = {}
    /\ part = <<>>
    /\ votes = {}

\* Config() builds the configuration with its defaults
SetDefault ==
    /\ phase = "idle"
    /\ cfg' = setDefault(cfg)
    /\ UNCHANGED <<phase, quorum, byz, part, votes>>
    /\ UNCHANGED sigvars

\* a test overrides the delays before a round and, but for TestAposRunning,
\* maxBBASteps too
Override ==
    \E k \in {cfg.MaxBBASteps} \cup 1..MaxSteps :
        /\ phase = "idle" /\ cfg.set
        /\ cfg' = [cfg EXCEPT !.DelayBlock = 2, !.DelayVerify = 1,
                              !.MaxBBASteps = k]
        /\ UNCHANGED <<phase, quorum, byz, part, votes>>
        /\ UNCHANGED sigvars

\* allNodeManager.init(n) and run: n participants start in Propose; the
\* quorum is any majority, and some identities are dishonest
InitRound ==
    \E n \in 0..MaxNodes :
        \E q \in (n \div 2 + 1)..(IF n = 0 THEN 1 ELSE n) :
            \E b \in SUBSET (1..n) :
                /\ phase = "idle" /\ cfg.set
                /\ n = 0 \/ cfg.MaxBBASteps <= MaxSteps
                /\ Cardinality(b) <= MaxByz /\ 3 * Cardinality(b) < n + 1
                /\ phase' = "running"
                /\ quorum' = q
                /\ byz' = b
                /\ part' = [p \in 1..n |-> [st |-> "Propose", step |-> 0, val |-> Default]]
                /\ votes' = {}
                /\ UNCHANGED cfg
                /\ UNCHANGED sigvars

\* Propose -> Step(1): the participant votes for the proposal it received
Propose(p) ==
    \E v \in Values :
        /\ phase = "running" /\ part[p].st = "Propose"
        /\ part' = [part EXCEPT ![p] = [st |-> "Step", step |-> 1, val |-> v]]
        /\ votes' = votes \cup {[from |-> p, step |-> 1, val |-> v]}
        /\ UNCHANGED <<cfg, phase, quorum, byz>>
        /\ UNCHANGED sigvars

\* Step(i) -> Committed(v): the participant observes a quorum for v
Commit(p) ==
    \E v \in Values :
        /\ phase = "running" /\ part[p].st = "Step"
        /\ HasQuorum(part[p].step, v)
        /\ part' = [part EXCEPT ![p].st = "Committed", ![p].val = v]
        /\ UNCHANGED <<cfg, phase, quorum, byz, votes>>
        /\ UNCHANGED sigvars

\* afterStep giving up one step early
afterStep_early(s, v, k) ==
    IF s.step < k - 1
    THEN [st |-> "Step", step |-> s.step + 1, val |-> v]
    ELSE [st |-> "Fallback", step |-> s.step, val |-> Default]

\* afterStep never giving up: the last step is repeated
afterStep_noFallback(s, v, k) ==
    IF s.step < k
    THEN [st |-> "Step", step |-> s.step + 1, val |-> v]
    ELSE [st |-> "Step", step |-> s.step, val |-> v]

\* the state a participant that saw no quorum in its step moves to, voting v:
\* the next step, or the fallback after step maxBBASteps
afterStep(s, v, k) ==
    IF s.step < k
    THEN [st |-> "Step", step |-> s.step + 1, val |-> v]
    ELSE [st |-> "Fallback", step |-> s.step, val |-> Default]

\* Step(i) -> Step(i+1) or FallbackCommitted, when the step's wait ends
Advance(p) ==
    \E v \in Values :
        LET s == afterStep(part[p], v, cfg.MaxBBASteps)
        IN  /\ phase = "running" /\ part[p].st = "Step"
            /\ part' = [part EXCEPT ![p] = s]
            /\ votes' = IF s.st = "Step"
                        THEN votes \cup {[from |-> p, step |-> s.step, val |-> v]}
                        ELSE votes
            /\ UNCHANGED <<cfg, phase, quorum, byz>>
            /\ UNCHANGED sigvars

\* one step of a participant's own state-machine driver
Driver(p) == p \in Nodes /\ (Propose(p) \/ Commit(p) \/ Advance(p))

\* a dishonest identity's vote, for any step and value, reaches the fabric
Inject ==
    \E b \in byz, i \in 1..MaxSteps, v \in Values :
        /\ phase = "running"
        /\ i <= cfg.MaxBBASteps
        /\ [from |-> b, step |-> i, val |-> v] \notin votes
        /\ votes' = votes \cup {[from |-> b, step |-> i, val |-> v]}
        /\ UNCHANGED <<cfg, phase, quorum, byz, part>>
        /\ UNCHANGED sigvars

\* run returns once every participant is in a terminal state
EndRound ==
    /\ phase = "running"
    /\ \A p \in Nodes : Terminal(p)
    /\ phase' = "done"
    /\ UNCHANGED <<cfg, quorum, byz, part, votes>>
    /\ UNCHANGED sigvars

\* the participants are destroyed when the round has concluded
Reset ==
    /\ phase = "done"
    /\ phase' = "idle"
    /\ quorum' = 0
    /\ byz' = {}
    /\ part' = <<>>
    /\ votes' = {}
    /\ UNCHANGED cfg
    /\ UNCHANGED sigvars

RoundNext ==
    \/ SetDefault
    \/ Override
    \/ InitRound
    \/ \E p \in Nodes : Propose(p)
    \/ \E p \in Nodes : Commit(p)
    \/ \E p \in Nodes : Advance(p)
    \/ Inject
    \/ EndRound
    \/ Reset

\* the signer the round's tests leave untouched
SigIdle ==
    /\ chainId = Nil
    /\ quantity = 0
    /\ cret = NewSigner("credential", MaxRound, TestStep, Nil)
    /\ prov = NoProv
    /\ last = Result("new", "ok", "")

Init == SigInit /\ RoundInit

\* the signature subsystem
Spec == Init /\ [][SigNext]_vars

\* the configuration and the round
InitIdle == SigIdle /\ RoundInit

SpecRound == InitIdle /\ [][RoundNext]_vars

\* the round with each participant's driver scheduled fairly
SpecRoundFair ==
    SpecRound /\ \A p \in 1..MaxNodes : WF_vars(Driver(p))

(***************************************************************************)
(* Properties of the signature subsystem                                   *)
(***************************************************************************)
\* the signature in cret was made by sign and is checked under the chain id
\* it was made under, for the same payload digest
SignedHere ==
    /\ prov.signed
    /\ chainId # Nil
    /\ prov.chain = chainId
    /\ hash(cret, TRUE).h = prov.h

\* C4: signing a payload with a non-zero digest and then calling sender under
\* the same non-nil chain id returns the address of the signing key, and the
\* stored V decodes back to the recovery bit crypto.Sign produced
C4_SignSenderRoundTrip ==
    /\ SignedHere =>
          unbiasV(Val(cret.V), chainId) = SignRaw(prov.h, prov.key).v
    /\ (SignedHere /\ last.op = "sender" /\ last.enc) =>
          (last.out = "ok" /\ last.addr = AddrOf(prov.key))

C4_Witness ==
    /\ SignedHere /\ last.op = "sender" /\ last.enc
    /\ chainId = Ptr(WideChainId)
    /\ cret.kind = "ephemeral"
    /\ last.out = "ok"

\* C5: a signature made under chain id A is rejected by sender, with an error
\* and no address, when the configured chain id is B # A
C5_ChainReplayRejected ==
    (/\ prov.signed /\ prov.chain # Nil /\ chainId # Nil
     /\ prov.chain # chainId
     /\ last.op = "sender")
    => (last.out = "err" /\ last.addr = NoAddr)

C5_Witness ==
    /\ prov.signed /\ prov.chain = Ptr(1) /\ chainId = Ptr(0)
    /\ last.op = "sender" /\ last.err = "ErrInvalidChainId"

\* the conditions C6 names: the derived chain id is the configured one, V
\* minus the bias is exactly 0 or 1, and R and S are in range
SenderAccepts(s, c) ==
    /\ deriveChainId(Val(s.V)) = c
    /\ Val(s.V) - Bias(c) \in {0, 1}
    /\ Val(s.R) >= 1 /\ Val(s.R) < CurveN
    /\ Val(s.S) >= 1 /\ Val(s.S) <= HalfN

\* C6: sender returns an address only for an (R, S, V) that meets those
\* conditions, and answers every other one with ErrInvalidChainId or
\* ErrInvalidSig
C6_SenderOnlyValid ==
    (/\ last.op = "sender" /\ chainId # Nil /\ checkObj(cret)
     /\ ~(cret.kind = "ephemeral" /\ cret.val = Nil))
    => /\ last.out = "ok" => SenderAccepts(cret, Val(chainId))
       /\ ~SenderAccepts(cret, Val(chainId)) =>
             (last.out = "err"
              /\ last.err \in {"ErrInvalidChainId", "ErrInvalidSig"})

C6_Witness ==
    /\ last.op = "sender" /\ chainId = Ptr(WrapChainId) /\ checkObj(cret)
    /\ Val(cret.V) = 1
    /\ last.err = "ErrInvalidSig"

\* an initialized signature with R, S in range and V = bias + b, b in {0, 1}
Canonical(s, c) ==
    /\ checkObj(s)
    /\ Val(s.R) >= 1 /\ Val(s.R) < CurveN
    /\ Val(s.S) >= 1 /\ Val(s.S) <= HalfN
    /\ Val(s.V) - Bias(c) \in {0, 1}

\* the layout R(32) || S(32) || b of C7
IsLayout(sig, s, c) ==
    /\ Len(sig) = SigLen
    /\ SetBytes(SubSeq(sig, 1, ScalarLen)) = Val(s.R)
    /\ SetBytes(SubSeq(sig, ScalarLen + 1, 2 * ScalarLen)) = Val(s.S)
    /\ sig[SigLen] = Val(s.V) - Bias(c)

\* C7: for a canonical signature toBytes returns R || S || b, and get applied
\* to those bytes under the same chain id reproduces R, S and V
C7_BytesRoundTrip ==
    [][/\ (last'.op = "toBytes" /\ chainId' # Nil
           /\ Canonical(cret', Val(chainId')))
          => (last'.out = "ok" /\ IsLayout(last'.sig, cret', Val(chainId')))
       /\ (/\ last.op = "toBytes" /\ chainId # Nil
           /\ Canonical(cret, Val(chainId))
           /\ last'.op = "get" /\ last'.arg = last.sig)
          => (last'.out = "ok" /\ RSV(cret') = RSV(cret))]_vars

C7_Witness ==
    /\ last.op = "get" /\ last.out = "ok"
    /\ chainId = Ptr(1)
    /\ Canonical(cret, 1)
    /\ last.pre = RSV(cret)
    /\ last.arg = toBytes(cret, chainId).sig
    /\ Val(cret.R) = CurveN - 1

\* R, S, V before the last operation were all set
PreInit == last.pre.R # Nil /\ last.pre.S # Nil /\ last.pre.V # Nil

\* C9 as stated: with a nil chain id sign never completes
C9_SignAbortsOnNilChain ==
    (last.op = "sign" /\ chainId = Nil) => last.out # "ok"

\* C9 amended: with a nil chain id sign does not abort because of it: it
\* panics only for an uninitialized Signature or payload, and when it
\* completes it has stored V = 27 + recovery bit, as for chain id zero
C9_SignNilChainAsZero ==
    (last.op = "sign" /\ chainId = Nil)
    => /\ last.out = "panic" =>
             (~PreInit \/ (cret.kind = "ephemeral" /\ cret.val = Nil))
       /\ last.out = "ok" =>
             /\ Val(cret.V) = Big27 + SignRaw(prov.h, prov.key).v
             /\ last.ret = RSV(cret)

C9_Witness ==
    /\ last.op = "sign" /\ chainId = Nil /\ last.out = "ok"
    /\ Val(cret.V) = Big27 + 1

SigOps == {"get", "toBytes", "hashBytes", "sender", "Cmp", "sign"}

\* C10 as stated: every operation on a Signature with a nil component panics
C10_NilAlwaysPanics ==
    (last.op \in SigOps /\ ~PreInit)
    => (last.out = "panic" /\ RSV(cret) = last.pre)

\* C10 amended: get, toBytes, Hash, hashBytes, sender and Cmp panic on a
\* Signature with a nil component; sign panics too unless it returns its
\* ordinary error first (nil key, zero digest, failed signing); in every case
\* R, S, V stay as they were
C10_NilPanicsOrEarlyError ==
    (last.op \in SigOps /\ ~PreInit)
    => /\ RSV(cret) = last.pre
       /\ last.op # "sign" => last.out = "panic"
       /\ last.op = "sign" =>
             \/ last.out = "panic"
             \/ /\ last.out = "err"
                /\ last.err \in {"private key is empty", "hash is empty",
                                 "sign failed"}

C10_Witness ==
    /\ last.op = "sign" /\ ~PreInit /\ last.out = "panic"
    /\ cret.R # Nil /\ cret.S # Nil /\ cret.V = Nil

\* the last operation was a sign whose key was nil, or whose payload hashed
\* to the zero digest
SignRefused ==
    /\ last.op = "sign"
    /\ \/ last.arg = Nil
       \/ (hash(cret, last.enc).out = "ok" /\ hash(cret, last.enc).h = ZeroHash)

\* the last operation was a get of a byte string of the wrong length
GetWrongLength == last.op = "get" /\ Len(last.arg) # SigLen

\* C11 as stated: sign with a nil key (whatever the payload) or a zero digest,
\* and get with a byte string that is not SigLen long, return an error, sign
\* returns nil R, S, V, and the stored R, S, V are unchanged
C11_ErrorsLeaveRSV ==
    /\ SignRefused =>
          (last.out = "err" /\ last.ret = NoRet /\ RSV(cret) = last.pre)
    /\ GetWrongLength => (last.out = "err" /\ RSV(cret) = last.pre)

\* C11 amended: the same, but get returns its length error only on an
\* initialized Signature; on one with a nil component it panics before it
\* looks at the length.  R, S, V are unchanged either way
C11_ErrorsLeaveRSVInitialized ==
    /\ SignRefused =>
          (last.out = "err" /\ last.ret = NoRet /\ RSV(cret) = last.pre)
    /\ GetWrongLength =>
          /\ RSV(cret) = last.pre
          /\ PreInit => (last.out = "err" /\ last.err = "wrong size")
          /\ ~PreInit => last.out = "panic"

C11_Witness ==
    /\ last.op = "sign" /\ last.arg = Nil
    /\ cret.kind = "ephemeral" /\ cret.val = Nil
    /\ PreInit /\ Val(cret.V) # 0
    /\ last.out = "err" /\ last.ret = NoRet

\* C12 as stated: the digest a Credential signs depends on the quantity as
\* well as on round and step: the digest of a credential signed for one seed
\* differs from its digest under another seed, and sender under the other
\* seed does not return the signer's address
C12_DigestBindsQuantity ==
    (cret.kind = "credential" /\ prov.signed /\ prov.q # quantity)
    => /\ hash(cret, TRUE).h # prov.h
       /\ (last.op = "sender" /\ last.enc /\ prov.chain = chainId)
             => ~(last.out = "ok" /\ last.addr = AddrOf(prov.key))

\* the last operation compared two eligible leader credentials: both carry a
\* verifiable signature under the configured chain id
CmpOfEligible ==
    /\ last.op = "Cmp" /\ chainId # Nil
    /\ Canonical(last.pre, Val(chainId))
    /\ Canonical(last.arg, Val(chainId))

\* C13: on eligible leader credentials Cmp is the numeric order of the
\* signature hashes: it is antisymmetric, it is 0 only for the same
\* (R, S, V), and it is transitive, so the smallest-hash leader is unique
C13_CmpUniqueWinner ==
    CmpOfEligible
    => /\ last.out = "ok"
       /\ (last.cmp < 0) <=>
             (LexCmp(hashBytes(last.pre, chainId).h,
                     hashBytes(last.arg, chainId).h) < 0)
       /\ last.cmp = 0 - Cmp(last.arg, last.pre, chainId).cmp
       /\ (last.cmp = 0) <=> (last.arg = last.pre)
       /\ \A x \in {o \in Others : Canonical(o, Val(chainId))} :
             (last.cmp <= 0 /\ Cmp(last.arg, x, chainId).cmp <= 0)
                => Cmp(last.pre, x, chainId).cmp <= 0

C13_Witness ==
    /\ CmpOfEligible
    /\ last.arg.R = last.pre.R /\ last.arg.S = last.pre.S
    /\ last.arg.V # last.pre.V
    /\ last.cmp # 0

\* C14 as stated: for every input of SigLen bytes with last byte b, get sets
\* R and S to the big-endian integers of the two scalars and V to the integer
\* sum bias + b, the bias being chainId*2 + 35 for a non-zero chain id and 27
\* for a zero or nil one
C14_GetVIntegerSum ==
    (last.op = "get" /\ last.out = "ok")
    => /\ Len(last.arg) = SigLen
       /\ Val(cret.R) = SetBytes(SubSeq(last.arg, 1, ScalarLen))
       /\ Val(cret.S) = SetBytes(SubSeq(last.arg, ScalarLen + 1, 2 * ScalarLen))
       /\ Val(cret.V) =
             Bias(IF chainId = Nil THEN 0 ELSE Val(chainId)) + last.arg[SigLen]

\* C15 as stated: toBytes returns an encoding only when V minus the chain-id
\* bias is exactly 0 or 1 and R, S are in range, and nil for every other V
C15_ToBytesOnlyCanonical ==
    (last.op = "toBytes" /\ last.out = "ok" /\ chainId # Nil)
    => (last.sig # Nil <=> Canonical(cret, Val(chainId)))

\* C16 as stated: ToCredentialSigKey is one-to-one: a credential that differs
\* from cret in round, step, R, S or V has a different key
C16_KeyInjective ==
    (last.op = "ToCredentialSigKey" /\ last.out = "ok" /\ last.arg # cret)
    => ToCredentialSigKey(last.arg).key # last.sig

(***************************************************************************)
(* Properties of the configuration and the round                           *)
(***************************************************************************)
\* C8 as stated: in every configuration the protocol runs with, each
\* probability numerator is at most PrPrecision and MaxBBASteps is positive
C8_ConfigInvariant ==
    cfg.set =>
        /\ BigLeq(cfg.PrLeader, cfg.PrPrecision)
        /\ BigLeq(cfg.PrVerifier, cfg.PrPrecision)
        /\ BigLeq(cfg.PrH, cfg.PrPrecision)
        /\ cfg.MaxBBASteps > 0

AllTerminal == \A p \in Nodes : Terminal(p)

NoQuorumEver == \A i \in 1..MaxSteps, v \in Values : ~HasQuorum(i, v)

\* C3: when no value ever reaches a quorum, a participant that has terminated
\* did so at exactly step maxBBASteps, in FallbackCommitted with the default
\* value
C3_FallbackAtExactlyK ==
    \A p \in Nodes :
        (Terminal(p) /\ NoQuorumEver)
        => /\ part[p].st = "Fallback"
           /\ part[p].step = cfg.MaxBBASteps
           /\ part[p].val = Default

C3_Witness ==
    /\ phase = "done"
    /\ Cardinality(Nodes) = MaxNodes
    /\ cfg.MaxBBASteps = MaxSteps
    /\ NoQuorumEver
    /\ \A p \in Nodes : part[p].st = "Fallback"
    /\ \E m \in votes : m.val = "H"
    /\ \E m \in votes : m.val = "X"

====
